---- MODULE Spec2Model ----
(***************************************************************************)
(* The queue / worker core of the comment posting server (src/app.py):     *)
(* the module-level store, receive_comments (submit_batch), _ensure_worker *)
(* (EnsureRunning), _worker_loop (Worker), keepalive (drain_now),          *)
(* clear_queue (clear_pending) and the status read.                        *)
(*                                                                         *)
(* Every `with <lock>:` block of the source is one atomic step; statements *)
(* that touch shared state outside a lock are steps of their own.          *)
(***************************************************************************)
EXTENDS Integers, Sequences, FiniteSets, TLC

\* ------------------------------------------------------------------ bounds
NumProducers == 2       \* submit_batch calls over the lifetime of the store
NumDrainers == 2        \* drain_now calls over the lifetime of the store
MaxBatch == 2           \* largest batch one submit_batch call carries
NumIds == 2             \* size of the identifier space uuid4()[:8] draws from
MaxTasks == 3           \* tasks submitted over the lifetime of the store

\* ------------------------------------------------------- program constants
MAX_HISTORY == 500      \* app.py:44
MAX_ATTEMPTS == 3       \* app.py:386, range(1, 4)
DEFAULT_MIN_WAIT == 4   \* app.py:63 and app.py:288
DEFAULT_MAX_WAIT == 6   \* app.py:63 and app.py:289

Producers == 1..NumProducers
Drainers == 1..NumDrainers
\* A Thread object is named after the submit_batch call that constructs it.
Threads == Producers
IdSpace == 1..NumIds
None == 0               \* Python None / an empty dict / an empty string

VARIABLES
    comment_queue,      \* app.py:38  deque of pending task records
    worker_thread,      \* app.py:40  None or the Thread object last stored
    worker_running,     \* app.py:41
    posting_history,    \* app.py:45
    total_received,     \* app.py:50
    total_success,      \* app.py:51
    total_fail,         \* app.py:52
    currently_posting,  \* app.py:55  NoTask or a task record
    session_data,       \* app.py:59  [cookies, csrf_token]
    wait_range,         \* app.py:63  [min_wait, max_wait]
    thread_state,       \* per Thread object: "none", "created", "alive", "dead"
    prod,               \* per submit_batch call: position, request, response
    wrk,                \* per Worker thread: position and locals of _worker_loop
    drn,                \* per drain_now call: position and locals of keepalive
    clr,                \* the clear_pending call: position and `cleared`
    rdr,                \* the status call: position and the values it read
    takers,             \* history variable: per task, who removed it from pending
    execs,              \* history variable: per task, the Executor invocations
    completed           \* history variable: every Result Record ever appended

store == <<comment_queue, worker_thread, worker_running, posting_history,
           total_received, total_success, total_fail, currently_posting,
           session_data, wait_range>>
ghost == <<takers, execs, completed>>
vars == <<comment_queue, worker_thread, worker_running, posting_history,
          total_received, total_success, total_fail, currently_posting,
          session_data, wait_range, thread_state, prod, wrk, drn, clr, rdr,
          takers, execs, completed>>

\* ----------------------------------------------------------------- helpers
Min(a, b) == IF a < b THEN a ELSE b

\* A task record: the dict of one comment.  `serial` stands for the payload
\* (url, title, subreddit, ai_comment); the model gives every submitted dict
\* a payload of its own so that a task can be told from any other.
Task(id, serial) == [id |-> id, serial |-> serial]

\* app.py:55, app.py:166 and app.py:372: the None of a variable that holds a
\* task record or nothing.
NoTask == Task(None, None)

\* The consumers that take tasks out of the pending list.
WorkerOf(w) == <<"worker", w>>
DrainOf(d) == <<"drain", d>>
ClearTag == <<"clear", 0>>

\* threading.Thread.is_alive() of the object stored in worker_thread.
IsAlive(t) == thread_state[t] = "alive"

\* ------------------------------------------------------------ initial state
\* In every record `locks` are the locks the thread holds, in the order it
\* acquired them, and `lock_pc` is the position at which it acquired them.
ProdInit == [pc |-> "start", n |-> 0, ids |-> <<>>, resp |-> None,
             locks |-> <<>>, lock_pc |-> ""]
WrkInit == [pc |-> "none", comment |-> NoTask, cookies |-> None,
            csrf_token |-> None, min_w |-> None, max_w |-> None,
            is_first |-> TRUE, pauses |-> <<>>, success |-> FALSE,
            raised |-> FALSE, locks |-> <<>>, lock_pc |-> ""]
DrnInit == [pc |-> "start", comment |-> NoTask, cookies |-> None,
            csrf_token |-> None, attempt |-> 0, success |-> FALSE,
            posted |-> 0, failed |-> 0, slept |-> FALSE, raised |-> FALSE,
            locks |-> <<>>, lock_pc |-> ""]
\* held and barred are history fields, kept when `track` is set: the tasks a
\* consumer had taken and not begun to execute when the clear in progress
\* emptied the list, and the tasks held at a clear that has returned for
\* which no Executor invocation had begun by the return.
ClrInit == [pc |-> "start", cleared |-> 0, track |-> FALSE, held |-> {},
            barred |-> {}, locks |-> <<>>, lock_pc |-> ""]
RdrInit == [pc |-> "start", q_size |-> 0, pending |-> <<>>,
            locks |-> <<>>, lock_pc |-> ""]

\* The state after the module was loaded; `clear` is the record of the
\* clear_pending call, with or without its history.
InitWith(clear) ==
    /\ comment_queue = <<>>
    /\ worker_thread = None
    /\ worker_running = FALSE
    /\ posting_history = <<>>
    /\ total_received = 0
    /\ total_success = 0
    /\ total_fail = 0
    /\ currently_posting = NoTask
    /\ session_data = [cookies |-> None, csrf_token |-> None]
    /\ wait_range = [min_wait |-> DEFAULT_MIN_WAIT, max_wait |-> DEFAULT_MAX_WAIT]
    /\ thread_state = [t \in Threads |-> "none"]
    /\ prod = [p \in Producers |-> ProdInit]
    /\ wrk = [w \in Threads |-> WrkInit]
    /\ drn = [d \in Drainers |-> DrnInit]
    /\ clr = clear
    /\ rdr = RdrInit
    /\ takers = <<>>
    /\ execs = <<>>
    /\ completed = <<>>

Init == InitWith(ClrInit)

\* ------------------------------------------------- receive_comments (submit)
\* The JSON bodies a caller p may send.  n is len(comments); cookies and
\* csrf_token are None when missing or empty, else the caller's credentials;
\* every caller sends a pacing band of its own.
Requests(p) ==
    [has_body : BOOLEAN, n : 0..MaxBatch, cookies : {None, p},
     csrf_token : {None, p}, wait : {<<p, p + 1>>}]

\* The tasks appended so far plus those of the calls that passed validation
\* and have not appended yet.
RECURSIVE Committed(_)
Committed(ps) ==
    IF ps = {} THEN Len(takers)
    ELSE LET p == CHOOSE q \in ps : TRUE IN
         (IF prod[p].pc = "enqueue" THEN prod[p].n ELSE 0)
             + Committed(ps \ {p})

\* Validate without the test of the token.
ValidateNoToken(req) ==
    IF ~req.has_body THEN "No JSON body provided"
    ELSE IF req.n = 0 THEN "No comments provided"
    ELSE IF req.cookies = None THEN "Missing cookies or csrf_token"
    ELSE "ok"

\* app.py:275-286: the three early returns with status 400.
Validate(req) ==
    IF ~req.has_body THEN "No JSON body provided"
    ELSE IF req.n = 0 THEN "No comments provided"
    ELSE IF req.cookies = None \/ req.csrf_token = None
         THEN "Missing cookies or csrf_token"
    ELSE "ok"

\* app.py:273-296: the call on body req.  A body that fails validation is
\* answered 400 at once; a valid one overwrites the Execution Parameters
\* under session_lock.
receive_comments_begin(p, req) ==
    /\ prod[p].pc = "start"
    /\ IF Validate(req) # "ok"
       THEN /\ prod' = [prod EXCEPT ![p].pc = "done", ![p].resp = 400]
            /\ UNCHANGED <<session_data, wait_range>>
       ELSE /\ Committed(Producers) + req.n <= MaxTasks
            /\ session_data' = [cookies |-> req.cookies,
                                csrf_token |-> req.csrf_token]
            /\ wait_range' = [min_wait |-> req.wait[1],
                              max_wait |-> req.wait[2]]
            /\ prod' = [prod EXCEPT ![p].pc = "enqueue", ![p].n = req.n]
    /\ UNCHANGED <<comment_queue, worker_thread, worker_running,
                   posting_history, total_received, total_success, total_fail,
                   currently_posting, thread_state, wrk, drn, clr, rdr, ghost>>

receive_comments(p) == \E req \in Requests(p) : receive_comments_begin(p, req)

\* app.py:302: str(uuid.uuid4())[:8] for each comment of a batch of n: any
\* value of the identifier space, drawn independently of every earlier draw.
NewIds(n) == [1..n -> IdSpace]

\* app.py:300-305: under queue_lock, every comment of the batch gets its
\* identifier and is appended, in input order.
Enqueued(q, ids, first) ==
    q \o [i \in 1..Len(ids) |-> Task(ids[i], first + i)]

receive_comments_enqueue(p) ==
    /\ prod[p].pc = "enqueue"
    /\ \E ids \in NewIds(prod[p].n) :
          /\ comment_queue' = Enqueued(comment_queue, ids, Len(takers))
          /\ prod' = [prod EXCEPT ![p].pc = "stats", ![p].ids = ids]
          /\ takers' = takers \o [i \in 1..Len(ids) |-> <<>>]
          /\ execs' = execs \o [i \in 1..Len(ids) |-> <<>>]
    /\ UNCHANGED <<worker_thread, worker_running, posting_history,
                   total_received, total_success, total_fail,
                   currently_posting, session_data, wait_range, thread_state,
                   wrk, drn, clr, rdr, completed>>

\* app.py:308-310: under stats_lock.
receive_comments_stats(p) ==
    /\ prod[p].pc = "stats"
    /\ total_received' = total_received + prod[p].n
    /\ prod' = [prod EXCEPT ![p].pc = "ensure"]
    /\ UNCHANGED <<comment_queue, worker_thread, worker_running,
                   posting_history, total_success, total_fail,
                   currently_posting, session_data, wait_range, thread_state,
                   wrk, drn, clr, rdr, ghost>>

\* ------------------------------------------------------------ _ensure_worker
\* app.py:234: the liveness test, taken under no lock.
WorkerIsRunning == worker_thread # None /\ IsAlive(worker_thread)

\* app.py:234-235, then app.py:319-325 when the worker is found alive.
ensure_worker_check(p) ==
    /\ prod[p].pc = "ensure"
    /\ prod' = IF WorkerIsRunning
               THEN [prod EXCEPT ![p].pc = "done", ![p].resp = 200]
               ELSE [prod EXCEPT ![p].pc = "set_running"]
    /\ UNCHANGED <<store, thread_state, wrk, drn, clr, rdr, ghost>>

\* app.py:237
ensure_worker_flag(p) ==
    /\ prod[p].pc = "set_running"
    /\ worker_running' = TRUE
    /\ prod' = [prod EXCEPT ![p].pc = "create"]
    /\ UNCHANGED <<comment_queue, worker_thread, posting_history,
                   total_received, total_success, total_fail,
                   currently_posting, session_data, wait_range, thread_state,
                   wrk, drn, clr, rdr, ghost>>

\* app.py:238: a new Thread object is stored in the global worker_thread.
ensure_worker_create(p) ==
    /\ prod[p].pc = "create"
    /\ worker_thread' = p
    /\ thread_state' = [thread_state EXCEPT ![p] = "created"]
    /\ prod' = [prod EXCEPT ![p].pc = "start_thread"]
    /\ UNCHANGED <<comment_queue, worker_running, posting_history,
                   total_received, total_success, total_fail,
                   currently_posting, session_data, wait_range,
                   wrk, drn, clr, rdr, ghost>>

\* app.py:239: worker_thread.start() reads the global again; start() of a
\* Thread that was started before raises RuntimeError, which ends the request
\* with status 500.  Otherwise the thread runs and the request returns 200
\* (app.py:319-325).
ensure_worker_start(p) ==
    /\ prod[p].pc = "start_thread"
    /\ LET t == worker_thread IN
         IF thread_state[t] = "created"
         THEN /\ thread_state' = [thread_state EXCEPT ![t] = "alive"]
              /\ wrk' = [wrk EXCEPT ![t].pc = "dequeue", ![t].is_first = TRUE]
              /\ prod' = [prod EXCEPT ![p].pc = "done", ![p].resp = 200]
         ELSE /\ prod' = [prod EXCEPT ![p].pc = "done", ![p].resp = 500]
              /\ UNCHANGED <<thread_state, wrk>>
    /\ UNCHANGED <<store, drn, clr, rdr, ghost>>

\* The part of a submit_batch call every call runs, and the part that
\* spawns a Worker.
Submit(p) ==
    \/ receive_comments(p)
    \/ receive_comments_enqueue(p)
    \/ receive_comments_stats(p)
    \/ ensure_worker_check(p)

Spawn(p) ==
    \/ ensure_worker_flag(p)
    \/ ensure_worker_create(p)
    \/ ensure_worker_start(p)

Producer(p) == Submit(p) \/ Spawn(p)

\* ------------------------------------------------------------ shared pieces
\* comment_queue[0] in place of popleft(): the head is read and stays.
PeekLeft(q) == [comment |-> Head(q), rest |-> q]

\* pop() in place of popleft(): the newest task is taken.
PopRight(q) == [comment |-> q[Len(q)], rest |-> SubSeq(q, 1, Len(q) - 1)]

\* app.py:169 and app.py:375, deque.popleft(): the task taken and the deque
\* left behind.
PopLeft(q) == [comment |-> Head(q), rest |-> Tail(q)]

\* What one call of post_comment_to_reddit can run into: the service answers
\* 200 (app.py:141-143); the call gives up, for a missing field, an address
\* with no post id or another answer (app.py:74-76, 92-94, 144-148); or a
\* statement inside the try block raises (app.py:78-139).
ExecutorOutcomes == {"posted", "refused", "raised"}

\* The call without its except clause: the exception leaves the call.
post_comment_unguarded(outcome) ==
    CASE outcome = "posted" -> "True"
      [] outcome = "refused" -> "False"
      [] outcome = "raised" -> "raise"

\* app.py:69-152: what the caller gets.  An exception raised inside the try
\* block is caught by the except clause, which returns False (app.py:150-152).
post_comment_to_reddit(outcome) ==
    CASE outcome = "posted" -> "True"
      [] outcome = "refused" -> "False"
      [] outcome = "raised" -> "False"

\* One Executor invocation, as remembered by the history variable execs.
Invocation(by, ok, cookies, csrf_token) ==
    [by |-> by, ok |-> ok, cookies |-> cookies, csrf_token |-> csrf_token]

\* app.py:215-221 and app.py:408-414: the Result Record of a task.
Result(comment, success) ==
    [id |-> comment.id, serial |-> comment.serial, success |-> success]

\* pop() in place of pop(0): the record just appended is dropped.
RecordedDropNewest(history, result) ==
    LET grown == Append(history, result) IN
    IF Len(grown) > MAX_HISTORY THEN SubSeq(grown, 1, Len(grown) - 1)
    ELSE grown

\* app.py:223-225 and app.py:416-418: append, then drop the oldest record
\* when the list has grown past MAX_HISTORY.
Recorded(history, result) ==
    LET grown == Append(history, result) IN
    IF Len(grown) > MAX_HISTORY THEN Tail(grown) ELSE grown

\* -------------------------------------------------------------- _worker_loop
\* app.py:166-171: DequeueOne under queue_lock.
worker_dequeue(w) ==
    /\ wrk[w].pc = "dequeue"
    /\ IF comment_queue # <<>>
       THEN LET got == PopLeft(comment_queue) IN
            /\ comment_queue' = got.rest
            /\ wrk' = [wrk EXCEPT ![w].pc = "session",
                                  ![w].comment = got.comment]
            /\ takers' = [takers EXCEPT ![got.comment.serial] =
                                             Append(@, WorkerOf(w))]
       ELSE /\ wrk' = [wrk EXCEPT ![w].pc = "idle"]
            /\ UNCHANGED <<comment_queue, takers>>
    /\ UNCHANGED <<worker_thread, worker_running, posting_history,
                   total_received, total_success, total_fail,
                   currently_posting, session_data, wait_range, thread_state,
                   prod, drn, clr, rdr, execs, completed>>

\* app.py:176: the exit test of the idle Worker.
MayExit == comment_queue = <<>> /\ ~worker_running

\* app.py:174-178: sleep one second, then under queue_lock leave the loop or
\* go round again; app.py:227: the thread ends.
worker_idle(w) ==
    /\ wrk[w].pc = "idle"
    /\ IF MayExit
       THEN /\ wrk' = [wrk EXCEPT ![w] =
                               [WrkInit EXCEPT !.locks = wrk[w].locks,
                                               !.lock_pc = wrk[w].lock_pc]]
            /\ thread_state' = [thread_state EXCEPT ![w] = "dead"]
       ELSE /\ wrk' = [wrk EXCEPT ![w].pc = "dequeue"]
            /\ UNCHANGED thread_state
    /\ UNCHANGED <<store, prod, drn, clr, rdr, ghost>>

\* app.py:181-185: the current Execution Parameters, under session_lock.
worker_session(w) ==
    /\ wrk[w].pc = "session"
    /\ wrk' = [wrk EXCEPT ![w].pc = "pace",
                          ![w].cookies = session_data.cookies,
                          ![w].csrf_token = session_data.csrf_token,
                          ![w].min_w = wait_range.min_wait,
                          ![w].max_w = wait_range.max_wait]
    /\ UNCHANGED <<store, thread_state, prod, drn, clr, rdr, ghost>>

\* A pacing sleep before every task, the first one included.
PacingSleepsAlways(is_first, min_w, max_w) == << <<min_w, max_w>> >>

\* app.py:188-191: the pacing sleeps taken for one task, each given by the
\* bounds random.uniform draws the delay from: none for the first task of a
\* session, one for any other.
PacingSleeps(is_first, min_w, max_w) ==
    IF is_first THEN <<>> ELSE << <<min_w, max_w>> >>

\* app.py:188-192: the pacing sleep, skipped for the first task of a session;
\* `pauses` remembers the sleeps taken for the task in hand.
worker_pace(w) ==
    /\ wrk[w].pc = "pace"
    /\ wrk' = [wrk EXCEPT ![w].pc = "set_cp", ![w].is_first = FALSE,
                          ![w].pauses = PacingSleeps(wrk[w].is_first,
                                                     wrk[w].min_w,
                                                     wrk[w].max_w)]
    /\ UNCHANGED <<store, thread_state, prod, drn, clr, rdr, ghost>>

\* app.py:195-197
worker_set_cp(w) ==
    /\ wrk[w].pc = "set_cp"
    /\ currently_posting' = wrk[w].comment
    /\ wrk' = [wrk EXCEPT ![w].pc = "post"]
    /\ UNCHANGED <<comment_queue, worker_thread, worker_running,
                   posting_history, total_received, total_success, total_fail,
                   session_data, wait_range, thread_state, prod, drn, clr, rdr,
                   ghost>>

\* app.py:200: one Executor invocation, no retry.  The call stands in no try
\* statement: an exception that left post_comment_to_reddit would end the
\* thread here.  `raised` tells that an invocation for the task in hand ran
\* into an exception.
worker_post(w) ==
    /\ wrk[w].pc = "post"
    /\ \E outcome \in ExecutorOutcomes :
          LET returned == post_comment_to_reddit(outcome)
              ok == returned = "True"
              exc == outcome = "raised"
          IN /\ execs' = [execs EXCEPT ![wrk[w].comment.serial] =
                             Append(@, Invocation(WorkerOf(w), ok,
                                                  wrk[w].cookies,
                                                  wrk[w].csrf_token))]
             /\ IF returned = "raise"
                THEN /\ wrk' = [wrk EXCEPT ![w].pc = "crashed",
                                           ![w].raised = @ \/ exc]
                     /\ thread_state' = [thread_state EXCEPT ![w] = "dead"]
                ELSE /\ wrk' = [wrk EXCEPT ![w].pc = "clear_cp",
                                           ![w].success = ok,
                                           ![w].raised = @ \/ exc]
                     /\ UNCHANGED thread_state
    /\ UNCHANGED <<store, prod, drn, clr, rdr, takers, completed>>

\* app.py:203-204
worker_clear_cp(w) ==
    /\ wrk[w].pc = "clear_cp"
    /\ currently_posting' = NoTask
    /\ wrk' = [wrk EXCEPT ![w].pc = "stats"]
    /\ UNCHANGED <<comment_queue, worker_thread, worker_running,
                   posting_history, total_received, total_success, total_fail,
                   session_data, wait_range, thread_state, prod, drn, clr, rdr,
                   ghost>>

\* app.py:207-212
worker_stats(w) ==
    /\ wrk[w].pc = "stats"
    /\ IF wrk[w].success
       THEN total_success' = total_success + 1 /\ UNCHANGED total_fail
       ELSE total_fail' = total_fail + 1 /\ UNCHANGED total_success
    /\ wrk' = [wrk EXCEPT ![w].pc = "history"]
    /\ UNCHANGED <<comment_queue, worker_thread, worker_running,
                   posting_history, total_received, currently_posting,
                   session_data, wait_range, thread_state, prod, drn, clr, rdr,
                   ghost>>

\* app.py:215-225, then back to the top of the loop (app.py:165-166).
worker_history(w) ==
    /\ wrk[w].pc = "history"
    /\ LET result == Result(wrk[w].comment, wrk[w].success) IN
         /\ posting_history' = Recorded(posting_history, result)
         /\ completed' = Append(completed, result)
    /\ wrk' = [wrk EXCEPT ![w] = [WrkInit EXCEPT !.pc = "dequeue",
                                                 !.is_first = FALSE,
                                                 !.locks = wrk[w].locks,
                                                 !.lock_pc = wrk[w].lock_pc]]
    /\ UNCHANGED <<comment_queue, worker_thread, worker_running,
                   total_received, total_success, total_fail,
                   currently_posting, session_data, wait_range, thread_state,
                   prod, drn, clr, rdr, takers, execs>>

Worker(w) ==
    \/ worker_dequeue(w)
    \/ worker_idle(w)
    \/ worker_session(w)
    \/ worker_pace(w)
    \/ worker_set_cp(w)
    \/ worker_post(w)
    \/ worker_clear_cp(w)
    \/ worker_stats(w)
    \/ worker_history(w)

\* ------------------------------------------------------ keepalive (drain_now)
\* app.py:363-369: the counts start at zero and the credentials are read once.
drain_session(d) ==
    /\ drn[d].pc = "start"
    /\ drn' = [drn EXCEPT ![d].pc = "dequeue",
                          ![d].cookies = session_data.cookies,
                          ![d].csrf_token = session_data.csrf_token]
    /\ UNCHANGED <<store, thread_state, prod, wrk, clr, rdr, ghost>>

\* drain_dequeue with the inter-task sleep taken before the emptiness test.
drain_dequeue_sleep_first(d) ==
    /\ drn[d].pc = "dequeue"
    /\ IF comment_queue # <<>>
       THEN LET got == PopLeft(comment_queue) IN
            /\ comment_queue' = got.rest
            /\ drn' = [drn EXCEPT ![d].pc = "set_cp",
                                  ![d].comment = got.comment,
                                  ![d].slept = TRUE]
            /\ takers' = [takers EXCEPT ![got.comment.serial] =
                                             Append(@, DrainOf(d))]
       ELSE /\ drn' = [drn EXCEPT ![d].pc = "done", ![d].slept = TRUE]
            /\ UNCHANGED <<comment_queue, takers>>
    /\ UNCHANGED <<worker_thread, worker_running, posting_history,
                   total_received, total_success, total_fail,
                   currently_posting, session_data, wait_range, thread_state,
                   prod, wrk, clr, rdr, execs, completed>>

\* app.py:372-377: DequeueOne under queue_lock; an empty list ends the call
\* (app.py:424-429).
drain_dequeue(d) ==
    /\ drn[d].pc = "dequeue"
    /\ IF comment_queue # <<>>
       THEN LET got == PopLeft(comment_queue) IN
            /\ comment_queue' = got.rest
            /\ drn' = [drn EXCEPT ![d].pc = "set_cp",
                                  ![d].comment = got.comment]
            /\ takers' = [takers EXCEPT ![got.comment.serial] =
                                             Append(@, DrainOf(d))]
       ELSE /\ drn' = [drn EXCEPT ![d].pc = "done"]
            /\ UNCHANGED <<comment_queue, takers>>
    /\ UNCHANGED <<worker_thread, worker_running, posting_history,
                   total_received, total_success, total_fail,
                   currently_posting, session_data, wait_range, thread_state,
                   prod, wrk, clr, rdr, execs, completed>>

\* app.py:380-385
drain_set_cp(d) ==
    /\ drn[d].pc = "set_cp"
    /\ currently_posting' = drn[d].comment
    /\ drn' = [drn EXCEPT ![d].pc = "post", ![d].attempt = 1,
                          ![d].success = FALSE]
    /\ UNCHANGED <<comment_queue, worker_thread, worker_running,
                   posting_history, total_received, total_success, total_fail,
                   session_data, wait_range, thread_state, prod, wrk, clr, rdr,
                   ghost>>

\* range(1, 3) in place of range(1, 4): the loop gives up after two attempts.
AfterAttemptShort(attempt, ok) ==
    IF ok \/ attempt >= MAX_ATTEMPTS - 1 THEN "clear_cp" ELSE "post"

\* app.py:386-391: where the retry loop goes after an invocation that was
\* number `attempt` and returned `ok`.
AfterAttempt(attempt, ok) ==
    IF ok \/ attempt >= MAX_ATTEMPTS THEN "clear_cp" ELSE "post"

\* The Execution Parameters read again from the store for every invocation.
DrainCredentialsReread(d) == session_data

\* app.py:387: the locals cookies and csrf_token the call passes on.
DrainCredentials(d) ==
    [cookies |-> drn[d].cookies, csrf_token |-> drn[d].csrf_token]

\* app.py:386-391: one round of the retry loop: the Executor is invoked with
\* the credentials read at entry; success leaves the loop, failure sleeps two
\* seconds and goes on to the next attempt, if one is left.  The call stands
\* in no try statement: an exception that left post_comment_to_reddit would
\* end the request here.  `raised` tells that an invocation for the task in
\* hand ran into an exception.
drain_post(d) ==
    /\ drn[d].pc = "post"
    /\ \E outcome \in ExecutorOutcomes :
          LET returned == post_comment_to_reddit(outcome)
              ok == returned = "True"
              exc == outcome = "raised"
          IN /\ execs' = [execs EXCEPT ![drn[d].comment.serial] =
                             Append(@, Invocation(DrainOf(d), ok,
                                           DrainCredentials(d).cookies,
                                           DrainCredentials(d).csrf_token))]
             /\ IF returned = "raise"
                THEN drn' = [drn EXCEPT ![d].pc = "crashed",
                                        ![d].raised = @ \/ exc]
                ELSE drn' = [drn EXCEPT
                                ![d].pc = AfterAttempt(drn[d].attempt, ok),
                                ![d].success = ok,
                                ![d].attempt = @ + 1,
                                ![d].slept = @ \/ ~ok,
                                ![d].raised = @ \/ exc]
    /\ UNCHANGED <<store, thread_state, prod, wrk, clr, rdr, takers, completed>>

\* app.py:394-395
drain_clear_cp(d) ==
    /\ drn[d].pc = "clear_cp"
    /\ currently_posting' = NoTask
    /\ drn' = [drn EXCEPT ![d].pc = "stats"]
    /\ UNCHANGED <<comment_queue, worker_thread, worker_running,
                   posting_history, total_received, total_success, total_fail,
                   session_data, wait_range, thread_state, prod, wrk, clr, rdr,
                   ghost>>

\* app.py:398-405
drain_stats(d) ==
    /\ drn[d].pc = "stats"
    /\ IF drn[d].success
       THEN /\ total_success' = total_success + 1
            /\ drn' = [drn EXCEPT ![d].pc = "history", ![d].posted = @ + 1]
            /\ UNCHANGED total_fail
       ELSE /\ total_fail' = total_fail + 1
            /\ drn' = [drn EXCEPT ![d].pc = "history", ![d].failed = @ + 1]
            /\ UNCHANGED total_success
    /\ UNCHANGED <<comment_queue, worker_thread, worker_running,
                   posting_history, total_received, currently_posting,
                   session_data, wait_range, thread_state, prod, wrk, clr, rdr,
                   ghost>>

\* app.py:408-418
drain_history(d) ==
    /\ drn[d].pc = "history"
    /\ LET result == Result(drn[d].comment, drn[d].success) IN
         /\ posting_history' = Recorded(posting_history, result)
         /\ completed' = Append(completed, result)
    /\ drn' = [drn EXCEPT ![d].pc = "gap"]
    /\ UNCHANGED <<comment_queue, worker_thread, worker_running,
                   total_received, total_success, total_fail,
                   currently_posting, session_data, wait_range, thread_state,
                   prod, wrk, clr, rdr, takers, execs>>

\* app.py:421-422: the pending list is looked at under no lock; when it holds
\* a task the call sleeps 2 to 4 seconds.  Then the top of the loop
\* (app.py:371-372).
drain_gap(d) ==
    /\ drn[d].pc = "gap"
    /\ drn' = [drn EXCEPT ![d].pc = "dequeue", ![d].comment = NoTask,
                          ![d].attempt = 0, ![d].success = FALSE,
                          ![d].raised = FALSE,
                          ![d].slept = @ \/ comment_queue # <<>>]
    /\ UNCHANGED <<store, thread_state, prod, wrk, clr, rdr, ghost>>

Drainer(d) ==
    \/ drain_session(d)
    \/ drain_dequeue(d)
    \/ drain_set_cp(d)
    \/ drain_post(d)
    \/ drain_clear_cp(d)
    \/ drain_stats(d)
    \/ drain_history(d)
    \/ drain_gap(d)

\* ------------------------------------------------ clear_queue (clear_pending)
\* len(comment_queue) taken after comment_queue.clear().
ClearedLate(q) == [cleared |-> 0, rest |-> <<>>]

\* app.py:436-437: the size is read, then the deque is emptied.
Cleared(q) == [cleared |-> Len(q), rest |-> <<>>]

\* The tasks that left the pending list in the hands of the Worker or of a
\* drain_now call and for which no Executor invocation has begun.
Held ==
    {s \in 1..Len(takers) :
        takers[s] # <<>> /\ takers[s][1] # ClearTag /\ execs[s] = <<>>}

\* app.py:435-437: under queue_lock.
clear_queue ==
    /\ clr.pc = "start"
    /\ clr' = [clr EXCEPT !.pc = "done",
                           !.cleared = Cleared(comment_queue).cleared,
                           !.held = IF clr.track THEN Held ELSE {}]
    /\ takers' = [s \in 1..Len(takers) |->
                     IF \E i \in 1..Len(comment_queue) :
                            comment_queue[i].serial = s
                     THEN Append(takers[s], ClearTag) ELSE takers[s]]
    /\ comment_queue' = Cleared(comment_queue).rest
    /\ UNCHANGED <<worker_thread, worker_running, posting_history,
                   total_received, total_success, total_fail,
                   currently_posting, session_data, wait_range, thread_state,
                   prod, wrk, drn, rdr, execs, completed>>

\* app.py:438-439: the call returns `cleared`; a later call starts afresh.
clear_return ==
    /\ clr.pc = "done"
    /\ clr' = [clr EXCEPT !.pc = "start", !.cleared = 0, !.held = {},
                           !.barred = @ \cup {s \in clr.held :
                                                  execs[s] = <<>>}]
    /\ UNCHANGED <<store, thread_state, prod, wrk, drn, rdr, ghost>>

\* ------------------------------------------------------- status (get_status)
\* app.py:331-340: under queue_lock, the size and the summaries of the
\* pending list.
status_queue ==
    /\ rdr.pc = "start"
    /\ rdr' = [rdr EXCEPT !.pc = "rest", !.q_size = Len(comment_queue),
                           !.pending = [i \in 1..Len(comment_queue) |->
                                           comment_queue[i].serial]]
    /\ UNCHANGED <<store, thread_state, prod, wrk, drn, clr, ghost>>

\* app.py:342-354: the history and the worker's liveness are read and the
\* call returns; a later call starts afresh.
status_return ==
    /\ rdr.pc = "rest"
    /\ rdr' = [RdrInit EXCEPT !.locks = rdr.locks, !.lock_pc = rdr.lock_pc]
    /\ UNCHANGED <<store, thread_state, prod, wrk, drn, clr, ghost>>

\* ----------------------------------------------------------- specifications
\* Concurrent submit_batch calls and the Workers they start.
Next ==
    \/ \E p \in Producers : Producer(p)
    \/ \E w \in Threads : Worker(w)

Spec == Init /\ [][Next]_vars

\* The steps of a submit_batch call that has begun: the request thread runs
\* on to its return.
ProducerRun(p) ==
    \/ receive_comments_enqueue(p)
    \/ receive_comments_stats(p)
    \/ ensure_worker_check(p)
    \/ Spawn(p)

\* The same calls and Workers under a fair scheduler: a request that has
\* begun and a Worker thread that was started keep being scheduled.  Whether
\* a request arrives at all is left open.
SpecLive ==
    /\ Init
    /\ [][Next]_vars
    /\ \A p \in Producers : WF_vars(ProducerRun(p))
    /\ \A w \in Threads : WF_vars(Worker(w))

\* One submit_batch call, its Worker, concurrent drain_now calls and
\* clear_pending.
NextDrain ==
    \/ Producer(1)
    \/ Worker(1)
    \/ \E d \in Drainers : Drainer(d)
    \/ clear_queue
    \/ clear_return

SpecDrain == Init /\ [][NextDrain]_vars

\* One submit_batch call, its Worker, clear_pending and status reads.
NextStatus ==
    \/ Producer(1)
    \/ Worker(1)
    \/ clear_queue
    \/ clear_return
    \/ status_queue
    \/ status_return

SpecStatus == Init /\ [][NextStatus]_vars

\* The same calls, with the history of clear_pending kept.
InitClear == InitWith([ClrInit EXCEPT !.track = TRUE])

SpecClear == InitClear /\ [][NextStatus]_vars

\* Largest batch of the submit_batch call whose locks are followed.
LockBatch == 1

\* -------------------------------------------------------------------- locks
\* app.py:39, 46, 53, 56, 60
Locks ==
    {"queue_lock", "history_lock", "stats_lock", "currently_posting_lock",
     "session_lock"}

\* The threads of the program: a request thread for every call, and the
\* Worker threads.
Actors ==
    {<<"submit", p>> : p \in Producers} \cup {WorkerOf(w) : w \in Threads}
        \cup {DrainOf(d) : d \in Drainers} \cup {ClearTag, <<"status", 0>>}

\* The position and the locals of thread a.
Local(a) ==
    CASE a[1] = "submit" -> prod[a[2]]
      [] a[1] = "worker" -> wrk[a[2]]
      [] a[1] = "drain" -> drn[a[2]]
      [] a[1] = "clear" -> clr
      [] a[1] = "status" -> rdr

\* LocksOf with the Worker's history append moved into its stats_lock block.
LocksOfNested(kind, pc) ==
    CASE kind = "submit" /\ pc = "start" -> <<"session_lock">>
      [] kind = "submit" /\ pc = "enqueue" -> <<"queue_lock">>
      [] kind = "submit" /\ pc = "stats" -> <<"stats_lock">>
      [] kind = "worker" /\ pc \in {"dequeue", "idle"} -> <<"queue_lock">>
      [] kind = "worker" /\ pc = "session" -> <<"session_lock">>
      [] kind = "worker" /\ pc \in {"set_cp", "clear_cp"} ->
             <<"currently_posting_lock">>
      [] kind = "worker" /\ pc = "stats" -> <<"stats_lock">>
      [] kind = "worker" /\ pc = "history" -> <<"stats_lock", "history_lock">>
      [] kind = "drain" /\ pc = "start" -> <<"session_lock">>
      [] kind = "drain" /\ pc = "dequeue" -> <<"queue_lock">>
      [] kind = "drain" /\ pc \in {"set_cp", "clear_cp"} ->
             <<"currently_posting_lock">>
      [] kind = "drain" /\ pc = "stats" -> <<"stats_lock">>
      [] kind = "drain" /\ pc = "history" -> <<"history_lock">>
      [] kind = "clear" /\ pc = "start" -> <<"queue_lock">>
      [] kind = "status" /\ pc = "start" -> <<"queue_lock">>
      [] kind = "status" /\ pc = "rest" -> <<"history_lock">>
      [] OTHER -> <<>>

\* The `with` statements the step at position pc of a thread of the given
\* kind stands in, outermost first: receive_comments app.py:292, 300, 308;
\* _worker_loop app.py:167, 175, 181, 195, 203, 207, 222; keepalive
\* app.py:367, 373, 380, 394, 398, 415; clear_queue app.py:435; status
\* app.py:331, 342.  Every other step stands in none.
LocksOf(kind, pc) ==
    CASE kind = "submit" /\ pc = "start" -> <<"session_lock">>
      [] kind = "submit" /\ pc = "enqueue" -> <<"queue_lock">>
      [] kind = "submit" /\ pc = "stats" -> <<"stats_lock">>
      [] kind = "worker" /\ pc \in {"dequeue", "idle"} -> <<"queue_lock">>
      [] kind = "worker" /\ pc = "session" -> <<"session_lock">>
      [] kind = "worker" /\ pc \in {"set_cp", "clear_cp"} ->
             <<"currently_posting_lock">>
      [] kind = "worker" /\ pc = "stats" -> <<"stats_lock">>
      [] kind = "worker" /\ pc = "history" -> <<"history_lock">>
      [] kind = "drain" /\ pc = "start" -> <<"session_lock">>
      [] kind = "drain" /\ pc = "dequeue" -> <<"queue_lock">>
      [] kind = "drain" /\ pc \in {"set_cp", "clear_cp"} ->
             <<"currently_posting_lock">>
      [] kind = "drain" /\ pc = "stats" -> <<"stats_lock">>
      [] kind = "drain" /\ pc = "history" -> <<"history_lock">>
      [] kind = "clear" /\ pc = "start" -> <<"queue_lock">>
      [] kind = "status" /\ pc = "start" -> <<"queue_lock">>
      [] kind = "status" /\ pc = "rest" -> <<"history_lock">>
      [] OTHER -> <<>>

\* The steps that sleep or invoke the Executor: the pacing sleep and the call
\* of the Worker (app.py:191, 200), the call with its retry sleep and the gap
\* sleep of drain_now (app.py:387-391, 422).
Blocks(kind, pc) ==
    \/ kind = "worker" /\ pc \in {"pace", "post"}
    \/ kind = "drain" /\ pc \in {"post", "gap"}

\* app.py:174-175: the idle Worker sleeps one second and then enters its
\* queue_lock block.
SleepsFirst(kind, pc) == kind = "worker" /\ pc = "idle"

Needs(a) == LocksOf(a[1], Local(a).pc)

\* threading.Lock: lock is held by no thread.
Free(lock) ==
    \A b \in Actors :
        \A i \in 1..Len(Local(b).locks) : Local(b).locks[i] # lock

\* Thread a is entering the `with` statements of its next step and has not
\* acquired all of them; the lock it asks for next.
Entering(a) ==
    /\ Len(Local(a).locks) < Len(Needs(a))
    /\ Local(a).locks = <<>> \/ Local(a).lock_pc = Local(a).pc
Wanted(a) == Needs(a)[Len(Local(a).locks) + 1]

\* Thread a holds what its next step stands in, and nothing else: a thread
\* leaves a `with` block before it runs the statement after it.
Ready(a) ==
    IF Needs(a) = <<>> THEN Local(a).locks = <<>>
    ELSE Local(a).locks = Needs(a) /\ Local(a).lock_pc = Local(a).pc

\* The record of thread a becomes rec; nothing else changes.
Put(a, rec) ==
    /\ prod' = IF a[1] = "submit" THEN [prod EXCEPT ![a[2]] = rec] ELSE prod
    /\ wrk' = IF a[1] = "worker" THEN [wrk EXCEPT ![a[2]] = rec] ELSE wrk
    /\ drn' = IF a[1] = "drain" THEN [drn EXCEPT ![a[2]] = rec] ELSE drn
    /\ clr' = IF a[1] = "clear" THEN rec ELSE clr
    /\ rdr' = IF a[1] = "status" THEN rec ELSE rdr
    /\ UNCHANGED <<store, thread_state, ghost>>

\* `with lock:` is entered: Lock.acquire() returns once the lock is free.
lock_acquire(a) ==
    /\ Local(a).pc \notin {"none", "done", "crashed"}
    /\ Entering(a)
    /\ Free(Wanted(a))
    /\ Put(a, [Local(a) EXCEPT !.locks = Append(@, Wanted(a)),
                               !.lock_pc = Local(a).pc])

\* The `with` block is left: the lock acquired last is released.
lock_release(a) ==
    /\ Local(a).locks # <<>>
    /\ Local(a).lock_pc # Local(a).pc
    /\ Put(a, [Local(a) EXCEPT
                  !.locks = SubSeq(@, 1, Len(@) - 1),
                  !.lock_pc = IF Len(Local(a).locks) = 1 THEN "" ELSE @])

\* The steps of the threads, each taken with the locks of its `with` block
\* held.  A request that fails validation takes no lock (app.py:275-286).
submit_locked(p) ==
    \/ /\ Local(<<"submit", p>>).locks = <<>>
       /\ \E req \in Requests(p) :
             Validate(req) # "ok" /\ receive_comments_begin(p, req)
    \/ /\ Ready(<<"submit", p>>)
       /\ \/ \E req \in Requests(p) :
                /\ Validate(req) = "ok" /\ req.n <= LockBatch
                /\ receive_comments_begin(p, req)
          \/ ProducerRun(p)

worker_locked(w) == Ready(WorkerOf(w)) /\ Worker(w)

drain_locked(d) == Ready(DrainOf(d)) /\ Drainer(d)

clear_locked == Ready(ClearTag) /\ (clear_queue \/ clear_return)

status_locked == Ready(<<"status", 0>>) /\ (status_queue \/ status_return)

\* One submit_batch call, its Worker, a drain_now call, clear_pending and
\* status reads, with the acquisition and the release of every lock as steps
\* of their own.
LockActors ==
    {<<"submit", 1>>, WorkerOf(1), DrainOf(1), ClearTag, <<"status", 0>>}

NextLocks ==
    \/ \E a \in LockActors : lock_acquire(a)
    \/ \E a \in LockActors : lock_release(a)
    \/ submit_locked(1)
    \/ worker_locked(1)
    \/ drain_locked(1)
    \/ clear_locked
    \/ status_locked

SpecLocks == Init /\ [][NextLocks]_vars

\* The store after `done` tasks were submitted one at a time by earlier calls
\* and completed with success: the Worker the first of those calls (call 1)
\* started is alive and idle, and the history holds a record for each of the
\* tasks.  The history variables takers and execs follow the tasks submitted
\* from this state on; the earlier tasks have serials below zero.
OldResult(i) == [id |-> (i % NumIds) + 1, serial |-> 0 - i, success |-> TRUE]

InitAfter(done) ==
    /\ comment_queue = <<>>
    /\ worker_thread = 1
    /\ worker_running = TRUE
    /\ posting_history = [i \in 1..Min(done, MAX_HISTORY) |->
                              OldResult(i + done - Min(done, MAX_HISTORY))]
    /\ total_received = done
    /\ total_success = done
    /\ total_fail = 0
    /\ currently_posting = NoTask
    /\ session_data = [cookies |-> 1, csrf_token |-> 1]
    /\ wait_range = [min_wait |-> 1, max_wait |-> 2]
    /\ thread_state = [t \in Threads |-> IF t = 1 THEN "alive" ELSE "none"]
    /\ prod = [p \in Producers |->
                 IF p = 1 THEN [ProdInit EXCEPT !.pc = "done", !.n = 1,
                                                !.ids = <<OldResult(1).id>>,
                                                !.resp = 200]
                 ELSE ProdInit]
    /\ wrk = [w \in Threads |->
                 IF w = 1 THEN [WrkInit EXCEPT !.pc = "dequeue",
                                                !.is_first = FALSE]
                 ELSE WrkInit]
    /\ drn = [d \in Drainers |-> DrnInit]
    /\ clr = ClrInit
    /\ rdr = RdrInit
    /\ takers = <<>>
    /\ execs = <<>>
    /\ completed = [i \in 1..done |-> OldResult(i)]

\* A history one record short of its bound, or just at it; then one more
\* submit_batch call, with the Worker and a drain_now call completing its
\* tasks concurrently.
InitHist == \E done \in {MAX_HISTORY - 1, MAX_HISTORY} : InitAfter(done)

NextHist ==
    \/ Submit(2)
    \/ Worker(1)
    \/ Drainer(1)

SpecHist == InitHist /\ [][NextHist]_vars

\* ------------------------------------------------------------------ claims
AliveWorkers == {t \in Threads : thread_state[t] = "alive"}

\* C1: in every reachable state at most one Worker thread is alive, under
\* any interleaving of concurrent submit_batch calls.
C1_AtMostOneWorker == Cardinality(AliveWorkers) <= 1

\* The sizes of the batches of the calls ps that passed validation.
RECURSIVE BatchTotal(_)
BatchTotal(ps) ==
    IF ps = {} THEN 0
    ELSE LET p == CHOOSE q \in ps : TRUE IN prod[p].n + BatchTotal(ps \ {p})

AllReturned == \A p \in Producers : prod[p].pc = "done"

\* C4: once the concurrent valid submit_batch calls have all returned,
\* total_received is the sum of their batch sizes, every submitted task was
\* appended exactly once, and each call returned as many identifiers as it
\* submitted tasks.
C4_NoLostUpdate ==
    AllReturned =>
        /\ total_received = BatchTotal(Producers)
        /\ Len(takers) = BatchTotal(Producers)
        /\ \A p \in Producers :
               prod[p].n > 0 => /\ prod[p].resp = 200
                                /\ Len(prod[p].ids) = prod[p].n

\* Every identifier handed out so far, with the call and the position in
\* the batch it was handed out for.
Assigned == {<<p, i>> \in Producers \X (1..MaxBatch) : i <= Len(prod[p].ids)}

\* C5: the identifiers submit_batch assigns are pairwise distinct over the
\* lifetime of the store.
C5_UniqueIds ==
    \A a, b \in Assigned :
        a # b => prod[a[1]].ids[a[2]] # prod[b[1]].ids[b[2]]

\* The submissions the contract rejects: no body or an empty batch, a
\* missing credential bundle, a missing token.
Rejected(req) ==
    ~req.has_body \/ req.n = 0 \/ req.cookies = None \/ req.csrf_token = None

\* C6: a submit_batch call on a body the contract rejects is answered with
\* the validation error and leaves the store unchanged: the pending list,
\* the counters, the Execution Parameters, the history, the marker and the
\* Worker threads are what they were.
C6_RejectedLeavesStore ==
    [][\A p \in Producers : \A req \in Requests(p) :
          (Rejected(req) /\ receive_comments_begin(p, req)) =>
              /\ prod'[p].resp = 400
              /\ prod'[p].pc = "done"
              /\ UNCHANGED <<store, thread_state, wrk, takers>>]_vars

\* A call was rejected while the store held tasks and parameters of another.
C6_Witness ==
    \E p \in Producers :
        /\ prod[p].resp = 400
        /\ comment_queue # <<>>
        /\ session_data.csrf_token # None
        /\ total_received > 0

\* How often task s stands in the pending list, and how many Result Records
\* were appended for it.
InPending(s) ==
    Cardinality({i \in 1..Len(comment_queue) : comment_queue[i].serial = s})
Records(s) ==
    Cardinality({i \in 1..Len(completed) : completed[i].serial = s})

\* C2: every enqueued task is either still pending, once, or was taken out
\* of the pending list exactly once, by the Worker, a drain_now call or
\* clear_pending; only the consumer that took it invokes the Executor for
\* it, and it yields at most one Result Record, and none unless executed.
C2_ConsumedExactlyOnce ==
    \A s \in 1..Len(takers) :
        /\ InPending(s) + Len(takers[s]) = 1
        /\ \A i \in 1..Len(execs[s]) : takers[s] = <<execs[s][i].by>>
        /\ Records(s) <= 1
        /\ Records(s) = 1 => execs[s] # <<>>

\* The Worker completed one task and a drain_now call another while the
\* second drain_now call ran as well.
C2_Witness ==
    \E s, t \in 1..Len(takers) : \E d, e \in Drainers :
        /\ takers[s] = <<WorkerOf(1)>> /\ Records(s) = 1
        /\ takers[t] = <<DrainOf(d)>> /\ Records(t) = 1
        /\ e # d /\ drn[e].pc = "done"

QueueInAppendOrder ==
    \A i, j \in 1..Len(comment_queue) :
        i < j => comment_queue[i].serial < comment_queue[j].serial

LeftInAppendOrder ==
    \A a, b \in 1..Len(takers) : (a < b /\ takers[b] # <<>>) => takers[a] # <<>>

\* C3: tasks are served FIFO.  The pending list stands in append order; a
\* task leaves it only when every task appended before it has left; and a
\* consumer that invokes the Executor for a task has invoked it for no task
\* appended later.
C3_Fifo ==
    [][/\ QueueInAppendOrder'
       /\ LeftInAppendOrder'
       /\ \A s \in 1..Len(execs) :
             Len(execs'[s]) > Len(execs[s]) =>
                 \A t \in (s + 1)..Len(execs) : \A i \in 1..Len(execs[t]) :
                     execs[t][i].by # execs'[s][Len(execs'[s])].by]_vars

\* One consumer executed the first task and then the second.
C3_Witness ==
    /\ Len(execs) >= 2
    /\ execs[1] # <<>>
    /\ execs[2] # <<>>
    /\ execs[1][1].by = execs[2][1].by

LastN(seq, n) == SubSeq(seq, Len(seq) - n + 1, Len(seq))

\* C7: the history never holds more than MAX_HISTORY records, and it is the
\* MAX_HISTORY most recently appended records, in append order (all of them
\* while fewer were appended).
C7_HistoryBound ==
    /\ Len(posting_history) <= MAX_HISTORY
    /\ posting_history =
           LastN(completed, Min(Len(completed), MAX_HISTORY))

\* Two records past the bound, appended by the Worker and by drain_now.
C7_Witness ==
    /\ Len(completed) = MAX_HISTORY + 2
    /\ Len(posting_history) = MAX_HISTORY
    /\ \E s, t \in 1..Len(takers) :
           /\ takers[s] = <<WorkerOf(1)>> /\ Records(s) = 1
           /\ takers[t] = <<DrainOf(1)>> /\ Records(t) = 1

TakenByDrain(s) == takers[s] # <<>> /\ takers[s][1][1] = "drain"

\* The drain_now call d is past the retry loop for task s.
PastRetries(d, s) ==
    /\ drn[d].pc \in {"clear_cp", "stats", "history"}
    /\ drn[d].comment.serial = s

\* C8: for a task dequeued by drain_now the Executor is invoked at most 3
\* times and never again after a success; when the retry loop is over it was
\* invoked at least once, the outcome is that of the last invocation, and a
\* failure is the outcome of exactly 3 invocations; the Result Record holds
\* that outcome.
C8_RetryPolicy ==
    \A s \in 1..Len(takers) :
        TakenByDrain(s) =>
            LET e == execs[s]
                n == Len(e)
                Final(success) ==
                    /\ n >= 1
                    /\ success = e[n].ok
                    /\ ~success => n = 3
            IN /\ n <= 3
               /\ \A i \in 1..(n - 1) : ~e[i].ok
               /\ \A d \in Drainers :
                     PastRetries(d, s) => Final(drn[d].success)
               /\ \A i \in 1..Len(completed) :
                     completed[i].serial = s => Final(completed[i].success)

\* fail, fail, succeed: a recorded success after exactly 3 invocations.
C8_Witness ==
    \E s \in 1..Len(takers) :
        /\ TakenByDrain(s)
        /\ Len(execs[s]) = 3
        /\ ~execs[s][1].ok /\ ~execs[s][2].ok /\ execs[s][3].ok
        /\ \E i \in 1..Len(completed) :
               completed[i].serial = s /\ completed[i].success

\* C9: a drain_now call that finds the pending list empty when it first
\* looks changes nothing: none of its steps touches the counters, the
\* history, the marker or any other part of the store, it invokes no
\* Executor and does not sleep, and it returns posted = 0 and failed = 0.
C9_EmptyDrain ==
    [][\A d \in Drainers :
          (/\ drn'[d] # drn[d]
           /\ drn[d].pc \in {"start", "dequeue"}
           /\ drn[d].posted + drn[d].failed = 0
           /\ comment_queue = <<>>) =>
              /\ UNCHANGED <<store, execs, completed, takers>>
              /\ ~drn'[d].slept
              /\ drn'[d].posted = 0 /\ drn'[d].failed = 0
              /\ drn[d].pc = "dequeue" => drn'[d].pc = "done"]_vars

\* A drain_now call returned 0 and 0 from a store that had been at work.
C9_Witness ==
    \E d \in Drainers :
        /\ drn[d].pc = "done"
        /\ drn[d].posted = 0 /\ drn[d].failed = 0
        /\ total_received > 0
        /\ completed # <<>>

\* C10: clear_pending empties the pending list in one step and reports the
\* size the list had; the counters, the history, the marker and the
\* Execution Parameters stay as they were.  A status read shows the pending
\* list as it is, and an empty pending list stays empty until a submit_batch
\* call appends: so a read after the clear, with no submission in between,
\* shows an empty list.
C10_Clear ==
    [][/\ (clr.pc = "start" /\ clr'.pc = "done") =>
             /\ comment_queue' = <<>>
             /\ clr'.cleared = Len(comment_queue)
             /\ UNCHANGED <<total_received, total_success, total_fail,
                            posting_history, currently_posting, session_data,
                            wait_range>>
       /\ (rdr.pc = "start" /\ rdr'.pc = "rest") =>
             /\ rdr'.q_size = Len(comment_queue)
             /\ rdr'.pending = [i \in 1..Len(comment_queue) |->
                                   comment_queue[i].serial]
       /\ (comment_queue = <<>> /\ comment_queue' # <<>>) =>
             \E p \in Producers :
                 prod[p].pc = "enqueue" /\ prod'[p].pc = "stats"]_vars

\* A whole batch was cleared before the Worker took any of it, and the
\* status read shows an empty pending list.
C10_Witness ==
    /\ clr.pc = "done"
    /\ clr.cleared = MaxBatch
    /\ total_received = MaxBatch
    /\ rdr.pc = "rest"
    /\ rdr.q_size = 0
    /\ comment_queue = <<>>

\* C12: whenever the Worker invokes the Executor, the credentials and the
\* token it passes are those the store holds at that moment: parameters a
\* submit_batch wrote at any time before the invocation, the pacing sleep
\* included, are the ones used.
C12_CurrentParameters ==
    [][\A w \in Threads :
          (wrk[w].pc = "post" /\ wrk'[w].pc # "post") =>
              /\ wrk[w].cookies = session_data.cookies
              /\ wrk[w].csrf_token = session_data.csrf_token]_vars

\* The tasks some consumer is executing: it has set the marker and is not yet
\* back from the Executor (from the last retry, for drain_now).
Executing ==
    {wrk[w].comment : w \in {v \in Threads : wrk[v].pc = "post"}}
        \cup {drn[d].comment : d \in {e \in Drainers : drn[e].pc = "post"}}

\* A consumer is back from the Executor and about to clear the marker.
Clearing ==
    \/ \E w \in Threads : wrk[w].pc = "clear_cp"
    \/ \E d \in Drainers : drn[d].pc = "clear_cp"

\* C15: the marker tracks the task in execution.  From the moment a consumer
\* has set the marker to its task until it is back from the Executor the
\* marker is on that task, and the marker is empty whenever no consumer is
\* executing a task or about to clear the marker.
C15_MarkerTracks ==
    /\ \A t \in Executing : currently_posting = t
    /\ (Executing = {} /\ ~Clearing) => currently_posting = NoTask

\* C19: the completed tasks never outnumber the received ones.
C19_CountersBounded == total_success + total_fail <= total_received

\* C17: a drain_now call reads the Execution Parameters once, at entry:
\* its locals take the store's credentials and token in its first step and
\* never change afterwards, and every Executor invocation the call makes,
\* for every task and every retry, passes those locals, whatever the store
\* holds by then.
C17_SnapshotAtEntry ==
    [][\A d \in Drainers :
          /\ (drn[d].pc = "start" /\ drn'[d].pc # "start") =>
                /\ drn'[d].cookies = session_data.cookies
                /\ drn'[d].csrf_token = session_data.csrf_token
          /\ drn[d].pc # "start" =>
                /\ drn'[d].cookies = drn[d].cookies
                /\ drn'[d].csrf_token = drn[d].csrf_token
          /\ \A s \in 1..Len(execs) :
                (/\ Len(execs'[s]) > Len(execs[s])
                 /\ execs'[s][Len(execs'[s])].by = DrainOf(d)) =>
                    /\ execs'[s][Len(execs'[s])].cookies = drn[d].cookies
                    /\ execs'[s][Len(execs'[s])].csrf_token =
                           drn[d].csrf_token]_vars

\* A drain_now call retried a task with the credentials it read at entry
\* after a submit_batch had overwritten the store's.
C17_Witness ==
    \E s \in 1..Len(execs) : \E d \in Drainers :
        /\ Len(execs[s]) >= 2
        /\ \A i \in 1..Len(execs[s]) :
               /\ execs[s][i].by = DrainOf(d)
               /\ execs[s][i].cookies = drn[d].cookies
               /\ execs[s][i].cookies # session_data.cookies

\* C20: once clear_pending has returned, no task submitted before that
\* clear is executed, unless an Executor invocation for it had begun before
\* the return.  The tasks the clear removed are never executed (C2); what is
\* left are the tasks a consumer took out of the pending list before the
\* clear and still holds, such as the one the Worker holds through its pacing
\* sleep: none of them is executed after the return.
C20_NothingAfterClear ==
    [][\A s \in clr.barred : execs'[s] = execs[s]]_vars

\* The Worker w has dequeued task s and has not invoked the Executor for it;
\* it is past its pacing for s; it is back from the Executor for s.
BeforePacing(w, s) ==
    wrk[w].pc \in {"session", "pace"} /\ wrk[w].comment.serial = s
PastPacing(w, s) ==
    /\ wrk[w].pc \in {"set_cp", "post", "clear_cp", "stats", "history"}
    /\ wrk[w].comment.serial = s
BeforeExecutor(w, s) ==
    /\ wrk[w].pc \in {"session", "pace", "set_cp", "post"}
    /\ wrk[w].comment.serial = s

\* Task s is the first task the Worker w dequeued.
FirstOfSession(w, s) ==
    \A t \in 1..(s - 1) : takers[t] # <<WorkerOf(w)>>

\* C16: within one Worker session the first dequeued task is executed with
\* no pacing sleep and every later task after exactly one, taken after the
\* dequeue and before the Executor is invoked, with the bounds the Worker
\* read from the Execution Parameters after that dequeue; and the Worker
\* invokes the Executor exactly once for every task it dequeues.
C16_WorkerPacing ==
    [][\A w \in Threads :
          /\ (wrk[w].pc = "session" /\ wrk'[w].pc # "session") =>
                /\ wrk'[w].min_w = wait_range.min_wait
                /\ wrk'[w].max_w = wait_range.max_wait
          /\ \A s \in 1..Len(takers') :
                takers'[s] = <<WorkerOf(w)>> =>
                    /\ BeforePacing(w, s)' => wrk'[w].pauses = <<>>
                    /\ PastPacing(w, s)' =>
                          wrk'[w].pauses =
                              IF FirstOfSession(w, s)' THEN <<>>
                              ELSE << <<wrk'[w].min_w, wrk'[w].max_w>> >>
                    /\ Len(execs'[s]) =
                           IF BeforeExecutor(w, s)' THEN 0 ELSE 1]_vars

\* A Worker is about to execute its second task after one pacing sleep
\* whose bounds a later submit_batch had written.
C16_Witness ==
    \E w \in Threads : \E s \in 2..Len(takers) :
        /\ wrk[w].pc = "post"
        /\ wrk[w].comment.serial = s
        /\ takers[s - 1] = <<WorkerOf(w)>>
        /\ execs[s] = <<>>
        /\ wrk[w].pauses = << <<2, 3>> >>
        /\ prod[2].pc = "done"
        /\ prod[2].n = 1

\* The consumers never stop over an exception of the Executor: a Worker whose
\* Executor invocation ran into one stays alive and a drain_now call goes on.
NotStopped ==
    /\ \A w \in Threads :
          wrk[w].raised =>
              /\ thread_state[w] = "alive"
              /\ wrk[w].pc \in {"clear_cp", "stats", "history"}
    /\ \A d \in Drainers :
          drn[d].raised =>
              drn[d].pc \in {"post", "clear_cp", "stats", "history", "gap"}

\* The Worker's steps for a task whose invocation ran into an exception: the
\* marker is cleared, total_fail is incremented, a failed Result Record is
\* appended and the loop goes back to the dequeue.
WorkerAbsorbs(w) ==
    wrk[w].raised =>
        /\ ~wrk[w].success
        /\ (wrk[w].pc = "clear_cp" /\ wrk'[w].pc # "clear_cp") =>
              currently_posting' = NoTask /\ wrk'[w].pc = "stats"
        /\ (wrk[w].pc = "stats" /\ wrk'[w].pc # "stats") =>
              /\ total_fail' = total_fail + 1
              /\ total_success' = total_success
              /\ wrk'[w].pc = "history"
        /\ (wrk[w].pc = "history" /\ wrk'[w].pc # "history") =>
              /\ completed' = Append(completed, Result(wrk[w].comment, FALSE))
              /\ wrk'[w].pc = "dequeue"

\* The statement as it stands, for drain_now: a task with an invocation that
\* ran into an exception is counted in total_fail and recorded as failed.
DrainRecordsFailed(d) ==
    drn[d].raised =>
        /\ (drn[d].pc = "clear_cp" /\ drn'[d].pc # "clear_cp") =>
              currently_posting' = NoTask /\ drn'[d].pc = "stats"
        /\ (drn[d].pc = "stats" /\ drn'[d].pc # "stats") =>
              /\ total_fail' = total_fail + 1
              /\ total_success' = total_success
              /\ drn'[d].pc = "history"
        /\ (drn[d].pc = "history" /\ drn'[d].pc # "history") =>
              /\ completed' = Append(completed, Result(drn[d].comment, FALSE))
              /\ drn'[d].pc = "gap"
        /\ (drn[d].pc = "gap" /\ drn'[d].pc # "gap") => drn'[d].pc = "dequeue"

\* C13: an exception of the Executor never stops a consumer: the Worker and
\* drain_now record a failed Result Record and increment total_fail for the
\* task, clear the marker and go on to the next pending task.
C13_ExceptionIsFailedTask ==
    [][/\ NotStopped'
       /\ \A w \in Threads : WorkerAbsorbs(w)
       /\ \A d \in Drainers : DrainRecordsFailed(d)]_vars

\* For drain_now the invocation that ran into an exception is a failed
\* attempt of the retry loop: the call sleeps and tries again unless it was
\* the third attempt, and the task is counted and recorded with the outcome
\* of its last attempt, a failure only after three failed attempts.
DrainAbsorbs(d) ==
    /\ (~drn[d].raised /\ drn'[d].raised) =>
          /\ ~drn'[d].success
          /\ drn'[d].slept
          /\ drn'[d].pc = IF drn[d].attempt >= MAX_ATTEMPTS THEN "clear_cp"
                          ELSE "post"
    /\ drn[d].raised =>
          /\ (drn[d].pc = "clear_cp" /\ drn'[d].pc # "clear_cp") =>
                currently_posting' = NoTask /\ drn'[d].pc = "stats"
          /\ (drn[d].pc = "stats" /\ drn'[d].pc # "stats") =>
                /\ IF drn[d].success
                   THEN /\ total_success' = total_success + 1
                        /\ total_fail' = total_fail
                   ELSE /\ total_fail' = total_fail + 1
                        /\ total_success' = total_success
                        /\ Len(execs[drn[d].comment.serial]) = MAX_ATTEMPTS
                /\ drn'[d].pc = "history"
          /\ (drn[d].pc = "history" /\ drn'[d].pc # "history") =>
                /\ completed' = Append(completed, Result(drn[d].comment,
                                                         drn[d].success))
                /\ drn'[d].pc = "gap"
          /\ (drn[d].pc = "gap" /\ drn'[d].pc # "gap") =>
                drn'[d].pc = "dequeue"

\* C13, amended: an exception inside the Executor never stops a consumer and
\* counts as a failed invocation.  The Worker records a failed Result Record
\* and increments total_fail; drain_now retries and records the outcome of
\* the last attempt; both clear the marker and go on to the next pending task.
C13_ExceptionIsFailedAttempt ==
    [][/\ NotStopped'
       /\ \A w \in Threads : WorkerAbsorbs(w)
       /\ \A d \in Drainers : DrainAbsorbs(d)]_vars

\* The Worker is recording a failure for a task whose invocation raised,
\* and a drain_now call a success for a task whose first attempt raised.
C13_Witness ==
    /\ \E w \in Threads :
          wrk[w].raised /\ wrk[w].pc = "history" /\ total_fail >= 1
    /\ \E d \in Drainers :
          /\ drn[d].raised /\ drn[d].pc = "history" /\ drn[d].success
          /\ Len(execs[drn[d].comment.serial]) = 2

\* No submit_batch call is in progress: no further submission arrives.
NoSubmission == \A p \in Producers : prod[p].pc = "done"

\* C14: a Worker that finds the pending list empty, and still empty after
\* the grace interval, terminates when no further submission arrives: it
\* does not stay alive for ever over an empty pending list.
C14_IdleWorkerExits ==
    \A w \in Threads :
        (/\ thread_state[w] = "alive"
         /\ wrk[w].pc = "idle"
         /\ comment_queue = <<>>
         /\ NoSubmission) ~> thread_state[w] # "alive"

\* A consumer holds a task it took out of the pending list.
InFlight ==
    \/ \E w \in Threads :
          wrk[w].pc \in {"session", "pace", "set_cp", "post", "clear_cp",
                         "stats", "history"}
    \/ \E d \in Drainers :
          drn[d].pc \in {"set_cp", "post", "clear_cp", "stats", "history"}

\* Every accepted task is, in the end, executed and recorded.
AllCompleted ==
    \A s \in 1..MaxTasks :
        [](s <= Len(takers) =>
               <>(s <= Len(execs) /\ execs[s] # <<>> /\ Records(s) = 1))

\* C11: with no clear_pending and a fair scheduler every task of an accepted
\* batch is eventually executed and recorded, and whenever no task is
\* pending or in flight total_success + total_fail equals total_received.
C11_EventuallyCompleted ==
    /\ AllCompleted
    /\ []((comment_queue = <<>> /\ ~InFlight) =>
             total_success + total_fail = total_received)

\* Thread a waits for a lock that another thread holds.
Blocked(a) ==
    /\ Local(a).pc \notin {"none", "done", "crashed"}
    /\ Entering(a)
    /\ ~Free(Wanted(a))

\* The step of thread a from record before to record after sleeps or invokes
\* the Executor: a blocking step itself, or the entry into the block that the
\* idle sleep precedes.
Suspends(a, before, after) ==
    \/ Blocks(a[1], before.pc) /\ after.locks = before.locks
    \/ SleepsFirst(a[1], before.pc) /\ Len(after.locks) > Len(before.locks)

\* C18: no thread ever holds two of the store's locks at the same time, no
\* thread sleeps or invokes the Executor while it holds a lock, and a thread
\* that waits for a lock waits for a holder that is not itself waiting, so
\* that no interleaving of submit_batch, the Worker, drain_now, clear_pending
\* and status reads reaches a deadlock.
C18_OneLockNoDeadlock ==
    /\ [](\A a \in Actors :
            /\ Len(Local(a).locks) <= 1
            /\ Blocked(a) =>
                  \E b \in Actors :
                      /\ Local(b).locks = <<Wanted(a)>>
                      /\ ~Blocked(b))
    /\ [][\A a \in Actors :
            (Local(a)' # Local(a) /\ Suspends(a, Local(a), Local(a)'))
                => Local(a).locks = <<>>]_vars

\* A thread waits for queue_lock, which a second thread holds inside its
\* block, while a third thread holds another lock, and the Executor has been
\* invoked.
C18_Witness ==
    /\ \E a, b, c \in Actors :
          /\ Blocked(a) /\ Wanted(a) = "queue_lock"
          /\ Local(b).locks = <<"queue_lock">>
          /\ c \notin {a, b} /\ Local(c).locks # <<>>
    /\ \E s \in 1..Len(execs) : execs[s] # <<>>

====
